---- MODULE Spec2Model ----
(***************************************************************************)
(* Model of scripts/ncov-tools.py: the linking of per-sample artifacts     *)
(* into the ncov-tools data directory (link_ivar, link_freebayes), the     *)
(* generation of config.yaml (set_up), the invocation of the external tool *)
(* (__main__) and the relocation of its outputs (move).                    *)
(*                                                                         *)
(* Text is modelled as a sequence of characters (one-character strings);   *)
(* a sample name is a single token of such a sequence.  A file of the data *)
(* directory is a record naming the file it was hard-linked from and, for  *)
(* a FASTA file, its text.                                                 *)
(***************************************************************************)
EXTENDS Integers, Sequences, FiniteSets, TLC

\* ------------------------------------------------------------------ bounds
NumSamples == 2
MaxVerLen == 3
MaxRows == 4
MaxFastaLen == 3
MaxDupLen == 2
MaxMissing == 1
MaxRelink == 1

Names == <<"S1", "S2", "S3", "S4">>
Samples == {Names[i] : i \in 1..NumSamples}

BoundedSeq(S, n) == UNION {[1..k -> S] : k \in 0..n}

\* lists holding one path per sample (the first path segment is the sample)
PerSampleLists == {q \in BoundedSeq(Samples, NumSamples) :
                     \A i, j \in 1..Len(q) : q[i] = q[j] => i = j}

\* --------------------------------------------------------------- variables
VARIABLES
  input,            \* snakemake.input: variants, consensus, bams, primertrimmed_bams
  params,           \* snakemake.params: freebayes_run, pangolin, prefixes
  sample_csv,       \* lines of the file params['sample_csv_filename']
  fbVariants,       \* samples for which {s}/freebayes/{s}.variants.norm.vcf exists
  fbConsensus,      \* samples for which {s}/freebayes/{s}.consensus.fasta exists
  ivarFasta,        \* text of the i-th path of input['consensus']
  fbFasta,          \* text of {s}/freebayes/{s}.consensus.fasta
  net,              \* outcome of the release lookup: ok, last URL segment
  pc,               \* position in __main__ / set_up
  exc,              \* the exception that ended the run, or "none"
  raisedAt,         \* the step that raised
  pangolin,         \* set_up's local 'pangolin'
  lookupAttempted,  \* urlopen was called
  data_root,        \* the files of the data directory
  neg_samples,      \* set_up's local 'neg_samples'
  config,           \* set_up's local 'config'
  configFile,       \* ncov-tools/config.yaml as written by this run
  configWritten,
  toolInvoked,      \* run_ncov_tools.sh was launched
  relinks,          \* number of additional link_ivar runs
  cwdDirs,          \* move: subdirectories of {cwd}/ncov-tools that exist
  srcFiles,         \* move: default-named outputs that exist
  destDirs,         \* move: subdirectories of dest that exist
  destFiles,        \* move: files copied to dest
  log,              \* move: messages printed
  attempted,        \* move: categories whose branch ran
  mpc               \* move: position

setupVars == <<input, params, sample_csv, fbVariants, fbConsensus, ivarFasta,
               fbFasta, net, pc, exc, raisedAt, pangolin, lookupAttempted,
               data_root, neg_samples, config, configFile, configWritten,
               toolInvoked, relinks>>
moveVars == <<cwdDirs, srcFiles, destDirs, destFiles, log, attempted, mpc>>
vars == <<setupVars, moveVars>>

\* ------------------------------------------------------------ file system
Suffixes == {"variants.tsv", "variants.vcf", "consensus.fasta", "bam",
             "mapped.primertrimmed.sorted.bam"}
FileNames == Samples \X Suffixes

File(origin, idx, sample, text) ==
  [origin |-> origin, idx |-> idx, sample |-> sample, text |-> text]
NoFile == File("none", 0, "", <<>>)
EmptyDir == [f \in FileNames |-> NoFile]
\* what a previous run left behind
StaleDir == [f \in FileNames |->
               IF f = <<"S1", "variants.vcf">>
               THEN File("stale", 0, "S1", <<>>) ELSE NoFile]

Result(dir, e) == [dir |-> dir, exc |-> e]

\* os.link(src, dst): a hard link; fails when dst exists
OsLink(dir, src, ln_path) ==
  IF dir[ln_path] # NoFile
  THEN Result(dir, "FileExistsError")
  ELSE Result([dir EXCEPT ![ln_path] = src], "none")

\* ----------------------------------------------------- FASTA header rewrite
FirstNewline(t) ==
  IF \E k \in 1..Len(t) : t[k] = "\n"
  THEN CHOOSE k \in 1..Len(t) : t[k] = "\n" /\ \A j \in 1..(k-1) : t[j] # "\n"
  ELSE 0

\* the lines a file iterator yields, each with its terminator
RECURSIVE Lines(_)
Lines(t) ==
  IF t = <<>> THEN <<>>
  ELSE LET k == FirstNewline(t)
       IN IF k = 0 THEN <<t>>
          ELSE <<SubSeq(t, 1, k)>> \o Lines(SubSeq(t, k + 1, Len(t)))

\* the body of the fileinput loop: what is printed for one line
RewriteLine(line, sample) ==
  IF line[1] = ">"
  THEN <<">", sample, "\n">>
  ELSE line \o <<"\n">>

RECURSIVE RewriteLines(_, _)
RewriteLines(ls, sample) ==
  IF ls = <<>> THEN <<>>
  ELSE RewriteLine(Head(ls), sample) \o RewriteLines(Tail(ls), sample)

\* for line in fileinput.input(ln_path, inplace=True): ...
RewriteHeaders(dir, ln_path, sample) ==
  [dir EXCEPT ![ln_path].text = RewriteLines(Lines(@), sample)]

\* ----------------------------------------------------------------- link_ivar
RECURSIVE IvarVariantsLoop(_, _, _)
IvarVariantsLoop(dir, i, replace) ==
  IF i > Len(input.variants) THEN Result(dir, "none")
  ELSE LET sample == input.variants[i]
           ln_path == <<sample, "variants.tsv">>
       IN IF dir[ln_path] = NoFile \/ replace
          THEN LET r == OsLink(dir, File("ivar_variants", i, sample, <<>>), ln_path)
               IN IF r.exc # "none" THEN r
                  ELSE IvarVariantsLoop(r.dir, i + 1, replace)
          ELSE IvarVariantsLoop(dir, i + 1, replace)

RECURSIVE IvarConsensusLoop(_, _, _)
IvarConsensusLoop(dir, i, replace) ==
  IF i > Len(input.consensus) THEN Result(dir, "none")
  ELSE LET sample == input.consensus[i]
           ln_path == <<sample, "consensus.fasta">>
           r == IF dir[ln_path] = NoFile \/ replace
                THEN OsLink(dir, File("ivar_consensus", i, sample, ivarFasta[i]), ln_path)
                ELSE Result(dir, "none")
       IN IF r.exc # "none" THEN r
          ELSE IvarConsensusLoop(RewriteHeaders(r.dir, ln_path, sample), i + 1, replace)

link_ivar(dir, replace) ==
  LET v == IvarVariantsLoop(dir, 1, replace)
  IN IF v.exc # "none" THEN v ELSE IvarConsensusLoop(v.dir, 1, replace)

\* ------------------------------------------------------------ link_freebayes
\* a variants pass that, on a missing FreeBayes file, links only that sample
\* from iVar and carries on
RECURSIVE FbVariantsLoopPartial(_, _)
FbVariantsLoopPartial(dir, i) ==
  IF i > Len(input.variants) THEN Result(dir, "none")
  ELSE LET sample == input.variants[i]
       IN IF sample \notin fbVariants
          THEN FbVariantsLoopPartial(
                 [dir EXCEPT ![<<sample, "variants.tsv">>] =
                    File("ivar_variants", i, sample, <<>>)], i + 1)
          ELSE LET ln_path == <<sample, "variants.vcf">>
               IN IF dir[ln_path] = NoFile
                  THEN FbVariantsLoopPartial(
                         [dir EXCEPT ![ln_path] = File("fb_variants", 0, sample, <<>>)],
                         i + 1)
                  ELSE FbVariantsLoopPartial(dir, i + 1)

RECURSIVE FbVariantsLoop(_, _)
FbVariantsLoop(dir, i) ==
  IF i > Len(input.variants) THEN Result(dir, "none")
  ELSE LET sample == input.variants[i]
       IN IF sample \notin fbVariants
          THEN link_ivar(dir, TRUE)
          ELSE LET ln_path == <<sample, "variants.vcf">>
               IN IF dir[ln_path] = NoFile
                  THEN LET r == OsLink(dir, File("fb_variants", 0, sample, <<>>), ln_path)
                       IN FbVariantsLoop(r.dir, i + 1)
                  ELSE FbVariantsLoop(dir, i + 1)

RECURSIVE FbConsensusLoop(_, _)
FbConsensusLoop(dir, i) ==
  IF i > Len(input.consensus) THEN Result(dir, "none")
  ELSE LET sample == input.consensus[i]
       IN IF sample \notin fbConsensus
          THEN link_ivar(dir, TRUE)
          ELSE LET ln_path == <<sample, "consensus.fasta">>
                   r == IF dir[ln_path] = NoFile
                        THEN OsLink(dir, File("fb_consensus", 0, sample, fbFasta[sample]),
                                    ln_path)
                        ELSE Result(dir, "none")
               IN FbConsensusLoop(RewriteHeaders(r.dir, ln_path, sample), i + 1)

link_freebayes(dir) ==
  LET v == FbVariantsLoop(dir, 1)
  IN IF v.exc # "none" THEN v ELSE FbConsensusLoop(v.dir, 1)

\* ------------------------------------------------------- version resolution
VerAlphabet == {"v", "V", "3", "4", "9", "."}
Versions == BoundedSeq(VerAlphabet, MaxVerLen)
              \cup {<<"v", "3", ".", "1", ".", "2">>, <<"v", "9", "9", ".", "0">>}
\* outcomes of urlopen(...).geturl(): failure, or the last segment of the URL
NetOutcomes == {[ok |-> FALSE, tag |-> <<>>],
                [ok |-> TRUE, tag |-> <<"v", "4", ".", "3">>],
                [ok |-> TRUE, tag |-> <<"9", ".", "0">>]}

\* str.split(".")[0]
BeforeDot(s) ==
  IF \E k \in 1..Len(s) : s[k] = "."
  THEN SubSeq(s, 1, (CHOOSE k \in 1..Len(s) :
                       s[k] = "." /\ \A j \in 1..(k-1) : s[j] # ".") - 1)
  ELSE s

\* str.lower()
Lower(s) == [k \in 1..Len(s) |-> IF s[k] = "V" THEN "v" ELSE s[k]]

\* str.strip("v")
RECURSIVE StripV(_)
StripV(s) ==
  IF s = <<>> THEN s
  ELSE IF s[1] = "v" THEN StripV(Tail(s))
  ELSE IF s[Len(s)] = "v" THEN StripV(SubSeq(s, 1, Len(s) - 1))
  ELSE s

NormalizeVersion(s) == StripV(Lower(BeforeDot(s)))

\* a resolver that supports major version 3 only
SupportedOnly3(p) == p = <<"3">>

\* assert pangolin == "3" or pangolin == "4"
Supported(p) == p = <<"3">> \/ p = <<"4">>

\* ------------------------------------------------ negative-control detection
ManifestRows == {<<"N", "h", ",", "\n">>,
                 <<"N", "1", ",", "x", "\n">>,
                 <<"s", "2", ",", "x", "\n">>,
                 <<"n", "b", ",", "\n">>,
                 <<"N", "1", "\n">>,
                 <<",", "N", "\n">>}
PrefixTuples == {<<>>,
                 << <<"N">> >>,
                 << <<"N">>, <<"n">> >>,
                 << <<"N", "1">>, <<"x">> >>,
                 << <<>> >>}

\* line.split(",")[0]
FirstField(line) ==
  IF \E k \in 1..Len(line) : line[k] = ","
  THEN SubSeq(line, 1, (CHOOSE k \in 1..Len(line) :
                          line[k] = "," /\ \A j \in 1..(k-1) : line[j] # ",") - 1)
  ELSE line

\* str.startswith(prefix)
StartsWith(s, prefix) ==
  Len(prefix) =< Len(s) /\ SubSeq(s, 1, Len(prefix)) = prefix

\* str.startswith(tuple)
RECURSIVE StartsWithAny(_, _)
StartsWithAny(s, names) ==
  IF names = <<>> THEN FALSE
  ELSE StartsWith(s, Head(names)) \/ StartsWithAny(s, Tail(names))

\* a reader that does not discard the first line
ReadDataRowsKeepHeader(lines) == lines

\* fh.readline(); for line in fh
ReadDataRows(lines) == IF lines = <<>> THEN <<>> ELSE Tail(lines)

RECURSIVE NegLoop(_, _, _)
NegLoop(rows, neg_names, acc) ==
  IF rows = <<>> THEN acc
  ELSE LET id == FirstField(Head(rows))
       IN NegLoop(Tail(rows), neg_names,
                  IF StartsWithAny(id, neg_names) THEN acc \cup {id} ELSE acc)

\* ------------------------------------------------------------------ set_up
NoConfig == [variants_pattern |-> "none", negative_control_samples |-> {},
             pangolin_version |-> <<>>]

inputVars == <<input, params, sample_csv, fbVariants, fbConsensus, ivarFasta,
               fbFasta, net>>

Raise(e) == /\ pc' = "raised"
            /\ exc' = e
            /\ raisedAt' = pc

\* lines 73-81
ResolveVersion ==
  /\ pc = "start"
  /\ LET p == NormalizeVersion(params.pangolin)
     IN IF Supported(p)
        THEN /\ pangolin' = p
             /\ pc' = "mkdir"
             /\ UNCHANGED <<lookupAttempted, exc, raisedAt>>
        ELSE /\ lookupAttempted' = TRUE
             /\ IF net.ok
                THEN /\ pangolin' = NormalizeVersion(net.tag)
                     /\ pc' = "mkdir"
                     /\ UNCHANGED <<exc, raisedAt>>
                ELSE /\ Raise("URLError")
                     /\ UNCHANGED pangolin
  /\ UNCHANGED <<inputVars, data_root, neg_samples, config, configFile,
                 configWritten, toolInvoked, relinks, moveVars>>

\* lines 84-87
ResetDataRoot ==
  /\ pc = "mkdir"
  /\ data_root' = EmptyDir
  /\ pc' = "neg"
  /\ UNCHANGED <<inputVars, exc, raisedAt, pangolin, lookupAttempted, neg_samples,
                 config, configFile, configWritten, toolInvoked, relinks, moveVars>>

\* lines 89-100
DetectNegatives ==
  /\ pc = "neg"
  /\ neg_samples' = NegLoop(ReadDataRows(sample_csv),
                            params.negative_control_prefix, {})
  /\ pc' = "config"
  /\ UNCHANGED <<inputVars, exc, raisedAt, pangolin, lookupAttempted, data_root,
                 config, configFile, configWritten, toolInvoked, relinks, moveVars>>

\* lines 103-123
BuildConfig ==
  /\ pc = "config"
  /\ config' = [variants_pattern |-> "{data_root}/{sample}.variants.tsv",
                negative_control_samples |-> neg_samples,
                pangolin_version |-> pangolin]
  /\ pc' = "bams"
  /\ UNCHANGED <<inputVars, exc, raisedAt, pangolin, lookupAttempted, data_root,
                 neg_samples, configFile, configWritten, toolInvoked, relinks,
                 moveVars>>

\* the loops of lines 126-136: 'replace' is not a name of set_up's scope, so
\* evaluating it (when the destination exists) raises NameError
RECURSIVE BamLoop(_, _, _, _, _)
BamLoop(dir, paths, i, suffix, origin) ==
  IF i > Len(paths) THEN Result(dir, "none")
  ELSE LET sample == paths[i]
           ln_path == <<sample, suffix>>
       IN IF dir[ln_path] = NoFile
          THEN LET r == OsLink(dir, File(origin, i, sample, <<>>), ln_path)
               IN BamLoop(r.dir, paths, i + 1, suffix, origin)
          ELSE Result(dir, "NameError")

\* lines 125-130
LinkBams ==
  /\ pc = "bams"
  /\ LET r == BamLoop(data_root, input.bams, 1, "bam", "bam")
     IN /\ data_root' = r.dir
        /\ IF r.exc = "none"
           THEN pc' = "ptbams" /\ UNCHANGED <<exc, raisedAt>>
           ELSE Raise(r.exc)
  /\ UNCHANGED <<inputVars, pangolin, lookupAttempted, neg_samples, config,
                 configFile, configWritten, toolInvoked, relinks, moveVars>>

\* lines 132-136
LinkPrimerTrimmedBams ==
  /\ pc = "ptbams"
  /\ LET r == BamLoop(data_root, input.primertrimmed_bams, 1,
                      "mapped.primertrimmed.sorted.bam", "ptbam")
     IN /\ data_root' = r.dir
        /\ IF r.exc = "none"
           THEN pc' = "link" /\ UNCHANGED <<exc, raisedAt>>
           ELSE Raise(r.exc)
  /\ UNCHANGED <<inputVars, pangolin, lookupAttempted, neg_samples, config,
                 configFile, configWritten, toolInvoked, relinks, moveVars>>

\* lines 138-142
LinkArtifacts ==
  /\ pc = "link"
  /\ LET r == IF params.freebayes_run
              THEN link_freebayes(data_root)
              ELSE link_ivar(data_root, FALSE)
     IN /\ data_root' = r.dir
        /\ IF r.exc = "none"
           THEN /\ pc' = "write"
                /\ config' = IF params.freebayes_run
                             THEN [config EXCEPT !.variants_pattern =
                                     "{data_root}/{sample}.variants.vcf"]
                             ELSE config
                /\ UNCHANGED <<exc, raisedAt>>
           ELSE /\ Raise(r.exc)
                /\ UNCHANGED config
  /\ UNCHANGED <<inputVars, pangolin, lookupAttempted, neg_samples, configFile,
                 configWritten, toolInvoked, relinks, moveVars>>

\* lines 144-148
WriteConfig ==
  /\ pc = "write"
  /\ configFile' = config
  /\ configWritten' = TRUE
  /\ pc' = "run"
  /\ UNCHANGED <<inputVars, exc, raisedAt, pangolin, lookupAttempted, data_root,
                 neg_samples, config, toolInvoked, relinks, moveVars>>

\* lines 186-192
RunTool ==
  /\ pc = "run"
  /\ toolInvoked' = TRUE
  /\ pc' = "done"
  /\ UNCHANGED <<inputVars, exc, raisedAt, pangolin, lookupAttempted, data_root,
                 neg_samples, config, configFile, configWritten, relinks, moveVars>>

\* link_ivar(data_root) called once more on the linked directory
RelinkIvar ==
  /\ pc = "write"
  /\ ~params.freebayes_run
  /\ relinks < MaxRelink
  /\ relinks' = relinks + 1
  /\ data_root' = link_ivar(data_root, FALSE).dir
  /\ UNCHANGED <<inputVars, pc, exc, raisedAt, pangolin, lookupAttempted,
                 neg_samples, config, configFile, configWritten, toolInvoked,
                 moveVars>>

Next ==
  \/ ResolveVersion
  \/ ResetDataRoot
  \/ DetectNegatives
  \/ BuildConfig
  \/ LinkBams
  \/ LinkPrimerTrimmedBams
  \/ LinkArtifacts
  \/ WriteConfig
  \/ RunTool

NextRelink == Next \/ RelinkIvar

\* -------------------------------------------------------------------- move
Categories == {"plots", "lineages", "qc_analysis"}
PlotExt == {"_amplicon_coverage_heatmap.pdf", "_amplicon_covered_fraction.pdf",
            "_depth_by_position.pdf", "_tree_snps.pdf"}
LineageExt == {"_lineage_report.csv"}
QcExt == {"_aligned-delim.fasta.log", "_aligned-delim.iqtree.log",
          "_aligned.fasta", "_aligned.fasta.insertions.csv",
          "_aligned.fasta.log", "_alleles.tsv", "_tree.nwk", "_tree_raw.nwk",
          "_consensus.fasta"}
Extensions(cat) == IF cat = "plots" THEN PlotExt
                   ELSE IF cat = "lineages" THEN LineageExt ELSE QcExt
Outputs == UNION {{<<cat, ext>> : ext \in Extensions(cat)} : cat \in Categories}

\* glob.glob of a literal path: the path when it exists, nothing otherwise
Glob(cat) == {f \in srcFiles : f[1] = cat /\ cat \in cwdDirs}

\* one category of move: the files copied and the messages printed
MoveCategory(cat) ==
  IF cat \in cwdDirs
  THEN [copied |-> {f \in Glob(cat) : cat \in destDirs},
        printed |-> {<<"Missing file", f[2]>> : f \in {g \in Glob(cat) : cat \notin destDirs}}]
  ELSE [copied |-> {},
        printed |-> {<<"Missing directory", cat>>}]

MoveStep(cat, from, to) ==
  /\ mpc = from
  /\ destFiles' = destFiles \cup MoveCategory(cat).copied
  /\ log' = log \cup MoveCategory(cat).printed
  /\ attempted' = attempted \cup {cat}
  /\ mpc' = to
  /\ UNCHANGED <<setupVars, cwdDirs, srcFiles, destDirs>>

\* lines 154-163
MovePlots == MoveStep("plots", "plots", "lineages")
\* lines 165-172
MoveLineages == MoveStep("lineages", "lineages", "qc_analysis")
\* lines 174-184
MoveQc == MoveStep("qc_analysis", "qc_analysis", "returned")

NextMove == MovePlots \/ MoveLineages \/ MoveQc

\* ----------------------------------------------------------- initial states
DefaultFasta == <<">", "x", "\n", "A", "\n">>
Texts == BoundedSeq({">", "A", "\n"}, MaxFastaLen)
DefaultCsv == << <<"N", "h", ",", "\n">>, <<"N", "1", ",", "x", "\n">>,
                 <<"s", "2", ",", "x", "\n">> >>
DefaultVersion == <<"v", "3", ".", "1", ".", "2">>
BamLists == {<<>>, <<"S1">>, <<"S2", "S1">>}

Boot ==
  /\ pc = "start"
  /\ exc = "none"
  /\ raisedAt = "none"
  /\ pangolin = <<>>
  /\ lookupAttempted = FALSE
  /\ data_root = StaleDir
  /\ neg_samples = {}
  /\ config = NoConfig
  /\ configFile = NoConfig
  /\ configWritten = FALSE
  /\ toolInvoked = FALSE
  /\ relinks = 0

MoveIdle ==
  /\ mpc = "idle"
  /\ cwdDirs = {}
  /\ srcFiles = {}
  /\ destDirs = {}
  /\ destFiles = {}
  /\ log = {}
  /\ attempted = {}

\* the pipeline's inputs: one path per sample in every list
Init ==
  /\ Boot
  /\ MoveIdle
  /\ input \in [variants : PerSampleLists, consensus : PerSampleLists,
                bams : BamLists, primertrimmed_bams : BamLists]
  /\ params \in [freebayes_run : BOOLEAN, pangolin : {DefaultVersion},
                 negative_control_prefix : {<< <<"N">>, <<"n">> >>}]
  /\ sample_csv = DefaultCsv
  /\ fbVariants \in SUBSET Samples
  /\ fbConsensus \in SUBSET Samples
  /\ ivarFasta = [i \in 1..Len(input.consensus) |-> DefaultFasta]
  /\ fbFasta = [s \in Samples |-> DefaultFasta]
  /\ net = [ok |-> FALSE, tag |-> <<>>]

\* input lists in which several paths may share their first segment
InitDup ==
  /\ Boot
  /\ MoveIdle
  /\ input \in [variants : BoundedSeq(Samples, MaxDupLen),
                consensus : BoundedSeq(Samples, MaxDupLen),
                bams : BoundedSeq(Samples, MaxDupLen),
                primertrimmed_bams : BoundedSeq(Samples, MaxDupLen)]
  /\ params \in [freebayes_run : BOOLEAN, pangolin : {DefaultVersion},
                 negative_control_prefix : {<< <<"N">>, <<"n">> >>}]
  /\ sample_csv = DefaultCsv
  /\ fbVariants = Samples
  /\ fbConsensus = Samples
  /\ ivarFasta = [i \in 1..Len(input.consensus) |-> DefaultFasta]
  /\ fbFasta = [s \in Samples |-> DefaultFasta]
  /\ net = [ok |-> FALSE, tag |-> <<>>]

\* every version string and lookup outcome
InitVersion ==
  /\ Boot
  /\ MoveIdle
  /\ input = [variants |-> <<"S1">>, consensus |-> <<"S1">>,
              bams |-> <<"S1">>, primertrimmed_bams |-> <<"S1">>]
  /\ params \in [freebayes_run : BOOLEAN, pangolin : Versions,
                 negative_control_prefix : {<< <<"N">>, <<"n">> >>}]
  /\ sample_csv = DefaultCsv
  /\ fbVariants = Samples
  /\ fbConsensus = Samples
  /\ ivarFasta = [i \in 1..Len(input.consensus) |-> DefaultFasta]
  /\ fbFasta = [s \in Samples |-> DefaultFasta]
  /\ net \in NetOutcomes

\* every manifest and prefix tuple
InitManifest ==
  /\ Boot
  /\ MoveIdle
  /\ input = [variants |-> <<"S1">>, consensus |-> <<"S1">>,
              bams |-> <<"S1">>, primertrimmed_bams |-> <<"S1">>]
  /\ params \in [freebayes_run : {FALSE}, pangolin : {DefaultVersion},
                 negative_control_prefix : PrefixTuples]
  /\ sample_csv \in BoundedSeq(ManifestRows, MaxRows)
  /\ fbVariants = Samples
  /\ fbConsensus = Samples
  /\ ivarFasta = [i \in 1..Len(input.consensus) |-> DefaultFasta]
  /\ fbFasta = [s \in Samples |-> DefaultFasta]
  /\ net = [ok |-> FALSE, tag |-> <<>>]

\* every consensus text
InitFasta ==
  /\ Boot
  /\ MoveIdle
  /\ input = [variants |-> <<"S1">>, consensus |-> <<"S1">>,
              bams |-> <<"S1">>, primertrimmed_bams |-> <<"S1">>]
  /\ params \in [freebayes_run : BOOLEAN, pangolin : {DefaultVersion},
                 negative_control_prefix : {<< <<"N">>, <<"n">> >>}]
  /\ sample_csv = DefaultCsv
  /\ fbVariants \in {{}, {"S1"}}
  /\ fbConsensus \in {{}, {"S1"}}
  /\ ivarFasta \in [1..Len(input.consensus) -> Texts]
  /\ \E t \in Texts : fbFasta = [s \in Samples |-> t]
  /\ net = [ok |-> FALSE, tag |-> <<>>]

\* move(cwd, dest, prefix) on every layout of the output and destination trees
InitMove ==
  /\ Boot
  /\ input = [variants |-> <<>>, consensus |-> <<>>,
              bams |-> <<>>, primertrimmed_bams |-> <<>>]
  /\ params = [freebayes_run |-> FALSE, pangolin |-> DefaultVersion,
               negative_control_prefix |-> <<>>]
  /\ sample_csv = DefaultCsv
  /\ fbVariants = {}
  /\ fbConsensus = {}
  /\ ivarFasta = <<>>
  /\ fbFasta = [s \in Samples |-> DefaultFasta]
  /\ net = [ok |-> FALSE, tag |-> <<>>]
  /\ mpc = "plots"
  /\ cwdDirs \in SUBSET Categories
  /\ destDirs \in SUBSET Categories
  /\ \E missing \in SUBSET Outputs :
       /\ Cardinality(missing) =< MaxMissing
       /\ srcFiles = {f \in Outputs \ missing : f[1] \in cwdDirs}
  /\ destFiles = {}
  /\ log = {}
  /\ attempted = {}

Spec == Init /\ [][Next]_vars
SpecDup == InitDup /\ [][Next]_vars
SpecVersion == InitVersion /\ [][Next]_vars
SpecManifest == InitManifest /\ [][Next]_vars
SpecFasta == InitFasta /\ [][NextRelink]_vars
SpecMove == InitMove /\ [][NextMove]_vars

\* ------------------------------------------------------------------ claims
VcfPattern == "{data_root}/{sample}.variants.vcf"
TsvPattern == "{data_root}/{sample}.variants.tsv"

\* the linking step of set_up has run (it returned or it raised)
LinkRan == pc \in {"write", "run", "done"} \/ (pc = "raised" /\ raisedAt = "link")

\* set_up has read the manifest
NegDetected == pc \in {"config", "bams", "ptbams", "link", "write", "run", "done"}
                 \/ (pc = "raised" /\ raisedAt # "start")

\* a line without its terminator
Body(line) ==
  IF line # <<>> /\ line[Len(line)] = "\n" THEN SubSeq(line, 1, Len(line) - 1) ELSE line

\* the text of the file a consensus file of the data directory was linked from
SourceText(f) == IF f.origin = "ivar_consensus" THEN ivarFasta[f.idx] ELSE fbFasta[f.sample]

\* C1: in alternate-caller mode a missing FreeBayes file never makes the
\* linking step raise: link_freebayes downgrades and returns normally.
C1_MissingFreebayesNeverRaises ==
  params.freebayes_run => ~(pc = "raised" /\ raisedAt = "link")

\* C2: in alternate-caller mode on a fresh data directory, when the FreeBayes
\* variants file is missing for at least one sample of the variants input,
\* every sample of the variants input has {sample}.variants.tsv linked from
\* its primary (iVar) source once linking has run.
C2_FullSetDowngrade ==
  (/\ LinkRan
   /\ params.freebayes_run
   /\ \E i \in 1..Len(input.variants) : input.variants[i] \notin fbVariants)
  => \A i \in 1..Len(input.variants) :
       data_root[<<input.variants[i], "variants.tsv">>]
         = File("ivar_variants", i, input.variants[i], <<>>)

\* C2 witness: the first sample had its FreeBayes file, the second did not,
\* and both ended up linked from iVar.
C2_Witness ==
  /\ pc = "done"
  /\ params.freebayes_run
  /\ Len(input.variants) = 2
  /\ input.variants[1] \in fbVariants
  /\ input.variants[2] \notin fbVariants
  /\ \A i \in 1..2 : data_root[<<input.variants[i], "variants.tsv">>].origin = "ivar_variants"

\* the variants of the data directory were linked from the alternate caller
AlternateVariantsLinked ==
  /\ params.freebayes_run
  /\ \A i \in 1..Len(input.variants) :
       data_root[<<input.variants[i], "variants.vcf">>].origin = "fb_variants"

\* C3: the variants_pattern written to config.yaml is the .vcf form exactly
\* when the variants were linked from the alternate caller, and the .tsv form
\* otherwise (also after a downgrade of the variants pass).
C3_PatternMatchesLinkingMode ==
  configWritten =>
    /\ (configFile.variants_pattern = VcfPattern) <=> AlternateVariantsLinked
    /\ (configFile.variants_pattern = TsvPattern) <=> ~AlternateVariantsLinked

\* C4: every linked consensus file has as many lines as its source, every
\* source header line is exactly >sample in it, and every other line is the
\* source line.
C4_ConsensusRewriteExact ==
  LinkRan =>
    \A s \in Samples :
      LET f == data_root[<<s, "consensus.fasta">>]
          src == Lines(SourceText(f))
          res == Lines(f.text)
      IN f # NoFile =>
           /\ Len(res) = Len(src)
           /\ \A k \in 1..Len(src) :
                IF src[k][1] = ">"
                THEN Body(res[k]) = <<">", s>>
                ELSE Body(res[k]) = Body(src[k])

\* C5: a second link_ivar run without the replace flag leaves the content of
\* every file already in the data directory unchanged.
C5_RelinkKeepsContent ==
  [][RelinkIvar => \A f \in FileNames :
                     data_root[f] # NoFile => data_root'[f] = data_root[f]]_vars

\* C6: after linking no sample has both a .variants.vcf and a .variants.tsv
\* file in the data directory.
C6_OneVariantsArtifact ==
  LinkRan =>
    \A s \in Samples :
      ~(/\ data_root[<<s, "variants.vcf">>] # NoFile
        /\ data_root[<<s, "variants.tsv">>] # NoFile)

\* C7: an existing destination without a replace flag is skipped silently:
\* neither BAM loop raises, and neither does link_ivar without replace.
C7_ExistingDestinationSkipped ==
  pc = "raised" =>
    /\ raisedAt \notin {"bams", "ptbams"}
    /\ ~(raisedAt = "link" /\ ~params.freebayes_run)

\* C8: when move returns, every category was attempted, every missing output
\* subdirectory was reported, and every missing source file of an existing
\* subdirectory was reported.
C8_MoveReportsAndContinues ==
  mpc = "returned" =>
    /\ attempted = Categories
    /\ \A cat \in Categories \ cwdDirs : <<"Missing directory", cat>> \in log
    /\ \A f \in Outputs \ srcFiles :
         f[1] \in cwdDirs => <<"Missing file", f[2]>> \in log

\* C9: the release lookup is attempted exactly when the normalized version is
\* neither 3 nor 4 (v3.1.2 resolves without it, v99.0 needs it), and when the
\* lookup fails set_up aborts: no config is written, the tool is not run.
C9_VersionResolution ==
  /\ pc # "start" =>
       /\ lookupAttempted <=> NormalizeVersion(params.pangolin) \notin {<<"3">>, <<"4">>}
       /\ params.pangolin = <<"v", "3", ".", "1", ".", "2">> =>
            ~lookupAttempted /\ pangolin = <<"3">>
       /\ params.pangolin = <<"v", "9", "9", ".", "0">> => lookupAttempted
  /\ pc = "start" => ~lookupAttempted
  /\ (lookupAttempted /\ ~net.ok) =>
       /\ pc = "raised"
       /\ raisedAt = "start"
       /\ ~configWritten
       /\ ~toolInvoked

\* C9 witness: an unsupported version whose lookup failed.
C9_Witness ==
  /\ params.pangolin = <<"v", "9", "9", ".", "0">>
  /\ lookupAttempted
  /\ pc = "raised"
  /\ exc = "URLError"

\* the leading comma-delimited fields of the data rows that start with one of
\* the prefixes
ExpectedNegatives ==
  LET names == params.negative_control_prefix
  IN UNION {
       {SubSeq(sample_csv[r], 1, k) :
          k \in {n \in 0..Len(sample_csv[r]) :
                   /\ \A j \in 1..n : sample_csv[r][j] # ","
                   /\ n = Len(sample_csv[r]) \/ sample_csv[r][n + 1] = ","
                   /\ \E q \in 1..Len(names) :
                        /\ Len(names[q]) =< n
                        /\ \A j \in 1..Len(names[q]) : sample_csv[r][j] = names[q][j]}}
       : r \in 2..Len(sample_csv)}

\* C10: the detected negative controls are exactly the leading fields of the
\* data rows that start with one of the prefixes; the header never counts,
\* and a header-only manifest or an empty prefix tuple gives the empty set.
C10_NegativeControlDetection ==
  NegDetected =>
    /\ neg_samples = ExpectedNegatives
    /\ Len(sample_csv) =< 1 => neg_samples = {}
    /\ params.negative_control_prefix = <<>> => neg_samples = {}

\* C10 witness: header Nh, rows N1, s2, nb and N1 again with prefixes (N, n).
C10_Witness ==
  /\ pc = "done"
  /\ params.negative_control_prefix = << <<"N">>, <<"n">> >>
  /\ sample_csv = << <<"N", "h", ",", "\n">>, <<"N", "1", ",", "x", "\n">>,
                     <<"n", "b", ",", "\n">>, <<"N", "1", ",", "x", "\n">> >>
  /\ neg_samples = {<<"N", "1">>, <<"n", "b">>}

====
